---------------------------- MODULE Spec2Model ----------------------------
(***************************************************************************)
(* Model of the Pasted.IR Telegram bot (src/main.py): the rate-limit gate  *)
(* check_rate_limit, the language detector detect_language_from_content,   *)
(* the eligibility classifier should_create_paste, the store call          *)
(* create_paste and the message handler handle_message.                    *)
(*                                                                         *)
(* A message text is a sequence of lines (text.split('\n')).  TLA+ cannot  *)
(* evaluate regular expressions, so lines are drawn from a vocabulary of   *)
(* concrete lines, and for each of them the model records what the         *)
(* source's expressions compute on it: its length, the code indicators     *)
(* that match it, the catalog patterns re.search finds and the number of   *)
(* keyword matches.  The vocabulary:                                       *)
(*                                                                         *)
(*   blank      "   "                                                      *)
(*   sb_python  "#!/usr/bin/env Python3"                                   *)
(*   sb_pysh    "#!/bin/sh -c python"                                      *)
(*   sb_bash    "#!/bin/bash"                                              *)
(*   sb_zsh     "#!/usr/bin/zsh"                                           *)
(*   sb_node    "#!/usr/bin/env node"                                      *)
(*   sb_perl    "#!/usr/bin/perl"                                          *)
(*   html       "<html><body><div>hi</div></body></html>"                  *)
(*   py_def     "def foo(self): return None"                               *)
(*   sql        "SELECT name FROM users WHERE id = 1"                      *)
(*   prose      "we walked along the river bank"                           *)
(*   prose250   250 characters of the same kind of prose                   *)
(*   prose1200  1200 characters of the same kind of prose                  *)
(***************************************************************************)
EXTENDS Integers, Sequences, FiniteSets, TLC

VARIABLES
    MIN_MESSAGE_LENGTH,  \* configuration, int(os.getenv('MIN_MESSAGE_LENGTH'))
    now,                 \* the clock time.time() reads
    user_rate_limit,     \* the module-level dict user_id -> timestamp
    pc,                  \* position of the handler run in flight
    message,             \* update.message of the run in flight
    eligible,            \* result of should_create_paste(text)
    detected_lang,       \* result of detect_language_from_content(text)
    lang_id,             \* create_paste's lang_id: <<>> is None, <<n>> is n
    data,                \* create_paste's payload
    paste_url,           \* create_paste's result: <<>> is None, <<id>> the URL
    trace,               \* the calls this handler run has made, in order
    granted,             \* history: per user, when the gate last returned True
    last_call            \* history: the most recent gate call, as a set

vars == <<MIN_MESSAGE_LENGTH, now, user_rate_limit, pc, message, eligible,
          detected_lang, lang_id, data, paste_url, trace, granted, last_call>>

---------------------------------------------------------------------------
(* Bounds and configuration *)

MaxLines == 3

MaxTime == 85

RATE_LIMIT_WINDOW == 60

PASTE_EXPIRATION_DAYS == 7

DefaultMinLength == 200

LongMessageLength == 1000

MinLengths == {0, 24, 200, 1001, 1500}

TimeSteps == {20, 41}

Users == {1, 2}

None == "None"

---------------------------------------------------------------------------
(* Texts *)

Vocabulary ==
    {"blank", "sb_python", "sb_pysh", "sb_bash", "sb_zsh", "sb_node",
     "sb_perl", "html", "py_def", "sql", "prose", "prose250", "prose1200"}

Texts == UNION {[1..n -> Vocabulary] : n \in 1..MaxLines}

LineLen(line) ==
    CASE line = "blank" -> 3
      [] line = "sb_python" -> 22
      [] line = "sb_pysh" -> 19
      [] line = "sb_bash" -> 11
      [] line = "sb_zsh" -> 14
      [] line = "sb_node" -> 19
      [] line = "sb_perl" -> 15
      [] line = "html" -> 39
      [] line = "py_def" -> 26
      [] line = "sql" -> 35
      [] line = "prose" -> 30
      [] line = "prose250" -> 250
      [] line = "prose1200" -> 1200

RECURSIVE SumLen(_)
SumLen(lines) ==
    IF lines = <<>> THEN 0 ELSE LineLen(Head(lines)) + SumLen(Tail(lines))

\* len(text): the lines and the '\n' between them
TextLen(lines) == SumLen(lines) + (Len(lines) - 1)

\* line.strip() == ''
IsBlank(line) == line \in {"blank"}

\* not content.strip()
IsBlankText(lines) == \A i \in 1..Len(lines) : IsBlank(lines[i])

---------------------------------------------------------------------------
(* detect_language_from_content *)

\* language_patterns, in insertion order
Catalog ==
    <<"html", "css", "javascript", "python", "php", "sql", "java", "cpp",
      "bash", "json", "xml", "yaml", "markdown", "c">>

Weight(lang) ==
    CASE lang = "html" -> 20
      [] lang \in {"css", "javascript", "python"} -> 15
      [] lang \in {"php", "sql", "java"} -> 12
      [] lang \in {"cpp", "bash"} -> 10
      [] lang \in {"json", "xml", "yaml"} -> 8
      [] lang = "markdown" -> 6
      [] lang = "c" -> 5

\* first_line.startswith('#!'), first_line lowercased
StartsWithShebang(line) ==
    line \in {"sb_python", "sb_pysh", "sb_bash", "sb_zsh", "sb_node", "sb_perl"}

\* 'python' in first_line
ContainsPython(line) == line \in {"sb_python", "sb_pysh"}

\* 'bash' in first_line
ContainsBash(line) == line \in {"sb_bash"}

\* 'sh' in first_line
ContainsSh(line) == line \in {"sb_pysh", "sb_bash", "sb_zsh"}

\* 'node' in first_line
ContainsNode(line) == line \in {"sb_node"}

\* The patterns of lang (by position in its list) that re.search finds in
\* the line wherever the line stands in the content.
PatternsAnywhere(line, lang) ==
    CASE line = "sb_pysh" /\ lang = "bash" -> {2}
      [] line = "sb_bash" /\ lang = "bash" -> {1}
      [] line = "html" /\ lang = "html" -> {2, 4, 5}
      [] line = "html" /\ lang = "xml" -> {2}
      [] line = "py_def" /\ lang = "python" -> {4}
      [] line = "sql" /\ lang = "sql" -> {1}
      [] OTHER -> {}

\* The patterns anchored with ^ that match only when the line is the
\* content's first line (re.search without re.MULTILINE).
PatternsAtStart(line, lang) ==
    CASE line = "sb_python" /\ lang = "python" -> {1}
      [] line = "sb_pysh" /\ lang = "python" -> {1}
      [] OTHER -> {}

\* The patterns of the form ^\s* ... $ that match only when the line is the
\* content's last line and only whitespace precedes it.
PatternsWhole(line, lang) ==
    CASE line = "sb_python" /\ lang = "yaml" -> {3}
      [] line = "sb_pysh" /\ lang = "yaml" -> {3}
      [] line = "sb_bash" /\ lang = "yaml" -> {3}
      [] line = "sb_zsh" /\ lang = "yaml" -> {3}
      [] line = "sb_node" /\ lang = "yaml" -> {3}
      [] line = "sb_perl" /\ lang = "yaml" -> {3}
      [] OTHER -> {}

\* sum over lang's keywords of len(re.findall(rf'\b{keyword}\b', line))
KeywordMatches(line, lang) ==
    CASE line = "html" /\ lang = "xml" -> 2
      [] line = "py_def" /\ lang = "javascript" -> 1
      [] line = "py_def" /\ lang = "python" -> 4
      [] line = "py_def" /\ lang = "php" -> 1
      [] line = "py_def" /\ lang = "c" -> 1
      [] line = "sql" /\ lang = "python" -> 1
      [] line = "sql" /\ lang = "sql" -> 3
      [] OTHER -> 0

\* the patterns of lang with re.search(pattern, content) true
MatchedPatterns(lines, lang) ==
    UNION {PatternsAnywhere(lines[i], lang)
             \cup (IF i = 1 THEN PatternsAtStart(lines[i], lang) ELSE {})
             \cup (IF i = Len(lines) /\ IsBlankText(SubSeq(lines, 1, i - 1))
                   THEN PatternsWhole(lines[i], lang) ELSE {})
           : i \in 1..Len(lines)}

RECURSIVE SumKeywords(_, _)
SumKeywords(lines, lang) ==
    IF lines = <<>> THEN 0
    ELSE KeywordMatches(Head(lines), lang) + SumKeywords(Tail(lines), lang)

\* score += 10 * weight per matching pattern, += matches * weight per keyword
Score(lines, lang) ==
    10 * Weight(lang) * Cardinality(MatchedPatterns(lines, lang))
      + Weight(lang) * SumKeywords(lines, lang)

\* max(scores, key=scores.get): the first language, in insertion order,
\* with the highest score; scores holds the languages with score > 0
MaxScore(lines) ==
    LET scored == {i \in 1..Len(Catalog) : Score(lines, Catalog[i]) > 0}
    IN  IF scored = {} THEN None
        ELSE Catalog[CHOOSE i \in scored :
                 \A j \in scored :
                     \/ Score(lines, Catalog[j]) < Score(lines, Catalog[i])
                     \/ (Score(lines, Catalog[j]) = Score(lines, Catalog[i])
                         /\ i <= j)]

\* The detector without its shebang check: scored matching only.
detect_NoShebang(lines) ==
    IF IsBlankText(lines) THEN None ELSE MaxScore(lines)

detect_language_from_content(lines) ==
    IF IsBlankText(lines) THEN None
    ELSE IF StartsWithShebang(lines[1]) /\ ContainsPython(lines[1])
         THEN "python"
    ELSE IF StartsWithShebang(lines[1])
            /\ (ContainsBash(lines[1]) \/ ContainsSh(lines[1]))
         THEN "bash"
    ELSE IF StartsWithShebang(lines[1]) /\ ContainsNode(lines[1])
         THEN "javascript"
    ELSE MaxScore(lines)

---------------------------------------------------------------------------
(* should_create_paste *)

\* The code_indicators (by position in the list) that re.search finds in
\* the line.
IndicatorHits(line) ==
    CASE line = "sb_python" -> {5}
      [] line = "sb_pysh" -> {5}
      [] line = "sb_bash" -> {5}
      [] line = "sb_zsh" -> {5}
      [] line = "sb_node" -> {5}
      [] line = "sb_perl" -> {5}
      [] line = "py_def" -> {3}
      [] OTHER -> {}

\* code_line_count: a line counts once if any indicator matches
CodeLineCount(lines) ==
    Cardinality({i \in 1..Len(lines) : IndicatorHits(lines[i]) # {}})

\* (code_line_count / len(lines)) > 0.3, in integers
LooksLikeCode(lines) == 10 * CodeLineCount(lines) > 3 * Len(lines)

\* The classifier without its length gate.
should_create_paste_NoGate(lines) ==
    \/ TextLen(lines) > LongMessageLength
    \/ LooksLikeCode(lines)
    \/ detect_language_from_content(lines) # None

\* The classifier without its long-message override.
should_create_paste_NoOverride(lines) ==
    IF TextLen(lines) < MIN_MESSAGE_LENGTH THEN FALSE
    ELSE IF LooksLikeCode(lines) THEN TRUE
    ELSE detect_language_from_content(lines) # None

should_create_paste(lines) ==
    IF TextLen(lines) < MIN_MESSAGE_LENGTH THEN FALSE
    ELSE IF TextLen(lines) > LongMessageLength \/ LooksLikeCode(lines) THEN TRUE
    ELSE detect_language_from_content(lines) # None

---------------------------------------------------------------------------
(* check_rate_limit *)

NoEntries == [u \in {} |-> 0]

\* user_rate_limit.clear()
Clear(limits) == NoEntries

\* for uid, timestamp in list(...): if current_time - timestamp >
\* RATE_LIMIT_WINDOW: del user_rate_limit[uid]
Purge(limits, current_time) ==
    [u \in {v \in DOMAIN limits : ~(current_time - limits[v] > RATE_LIMIT_WINDOW)}
        |-> limits[u]]

\* user_rate_limit[user_id] = current_time
Record(limits, user_id, current_time) ==
    [u \in DOMAIN limits \cup {user_id} |->
        IF u = user_id THEN current_time ELSE limits[u]]

\* A gate that never evicts: entries are neither cleared nor purged.
check_rate_limit_NoPurge(user_id, current_time, limits) ==
    IF user_id \in DOMAIN limits
    THEN [allowed |-> FALSE, limits |-> limits]
    ELSE [allowed |-> TRUE, limits |-> Record(limits, user_id, current_time)]

\* The result and the dict the call leaves behind.
check_rate_limit(user_id, current_time, limits) ==
    LET live == Purge(Clear(limits), current_time)
    IN  IF user_id \in DOMAIN live
        THEN [allowed |-> FALSE, limits |-> live]
        ELSE [allowed |-> TRUE, limits |-> Record(live, user_id, current_time)]

---------------------------------------------------------------------------
(* The paste store: get_language_id_by_alias, create_paste *)

\* What the languages endpoint may list.
Catalogs ==
    {<<>>,
     <<[alias |-> "Python", id |-> 1], [alias |-> "HTML", id |-> 2]>>,
     <<[alias |-> "text", id |-> 3], [alias |-> "python", id |-> 0]>>}

\* requests.get(LANGUAGES_API_URL) followed by raise_for_status() and json():
\* an exception (ok = FALSE) or the list of languages.
Responses ==
    {[ok |-> FALSE, languages |-> <<>>]}
      \cup {[ok |-> TRUE, languages |-> c] : c \in Catalogs}

\* requests.post(PASTEBINIR_API_URL) followed by raise_for_status() and
\* json(): an exception, a body without an id, or a body with the paste id.
PostOutcomes ==
    {[ok |-> FALSE, body |-> <<>>], [ok |-> TRUE, body |-> <<>>],
     [ok |-> TRUE, body |-> <<7>>]}

\* str.lower() on the aliases in use
Lower(alias) ==
    CASE alias = "Python" -> "python"
      [] alias = "HTML" -> "html"
      [] OTHER -> alias

\* lang_id of the first language whose alias matches, None (<<>>) if there
\* is none or the request failed
get_language_id_by_alias(alias, response) ==
    LET languages == response.languages
        matches == {i \in 1..Len(languages) :
                       Lower(languages[i].alias) = Lower(alias)}
    IN  IF ~response.ok \/ matches = {} THEN <<>>
        ELSE <<languages[CHOOSE i \in matches : \A j \in matches : i <= j].id>>

\* if lang_id:
Truthy(id) == id # <<>> /\ id[1] # 0

\* data = {'content': ..., 'expiration': ..., 'one_time': False}
Payload(content) ==
    [content |-> content, expiration |-> PASTE_EXPIRATION_DAYS, one_time |-> FALSE]

\* data['language'] = id
WithLanguage(d, id) ==
    [content |-> d.content, expiration |-> d.expiration,
     one_time |-> d.one_time, language |-> id]

\* One call of the run in flight, as the trace records it.
Event(op, arg, ok, body) == [op |-> op, arg |-> arg, ok |-> ok, body |-> body]

Count(op) == Cardinality({i \in 1..Len(trace) : trace[i].op = op})

---------------------------------------------------------------------------
(* handle_message.  Application.builder().build() leaves concurrent_updates *)
(* off, so the updates are handled one at a time: a run ends before the     *)
(* next one starts.  The clock is read in check_rate_limit only, so time    *)
(* passing between two runs is all the handler can observe.                 *)

\* The texts the handler is run on: short prose, prose long enough for the
\* length gate, prose over the long-message threshold, a script and a page.
HandlerTexts ==
    {<<"prose">>, <<"prose250">>, <<"prose1200">>,
     <<"sb_python", "prose250">>, <<"html", "prose250">>}

\* update.message: text <<>> stands for a message with no text
Updates ==
    [text : HandlerTexts \cup {<<>>}, is_bot : {FALSE},
     chat_type : {"group"}, user_id : Users]
      \cup [text : {<<"prose1200">>}, is_bot : BOOLEAN,
            chat_type : {"group", "private"}, user_id : Users]

NoMessage == [text |-> <<>>, is_bot |-> FALSE, chat_type |-> "group", user_id |-> 1]

Init ==
    /\ MIN_MESSAGE_LENGTH = DefaultMinLength
    /\ now = 0
    /\ user_rate_limit = NoEntries
    /\ pc = "idle"
    /\ message = NoMessage
    /\ eligible = FALSE
    /\ detected_lang = None
    /\ lang_id = <<>>
    /\ data = <<>>
    /\ paste_url = <<>>
    /\ trace = <<>>
    /\ granted = [u \in Users |-> <<>>]
    /\ last_call = {}

\* time.time() advances between two runs of the handler
Tick ==
    /\ pc \in {"idle", "done"}
    /\ \E d \in TimeSteps :
         /\ now + d <= MaxTime
         /\ now' = now + d
    /\ UNCHANGED <<MIN_MESSAGE_LENGTH, user_rate_limit, pc, message, eligible,
                   detected_lang, lang_id, data, paste_url, trace, granted,
                   last_call>>

\* The handler is entered; it returns at once for a message without text,
\* from a bot, or in a private chat.
Receive(update) ==
    /\ pc \in {"idle", "done"}
    /\ message' = update
    /\ pc' = IF update.text = <<>> \/ update.is_bot \/ update.chat_type = "private"
             THEN "done" ELSE "classify"
    /\ eligible' = FALSE
    /\ detected_lang' = None
    /\ lang_id' = <<>>
    /\ data' = <<>>
    /\ paste_url' = <<>>
    /\ trace' = <<>>
    /\ UNCHANGED <<MIN_MESSAGE_LENGTH, now, user_rate_limit, granted, last_call>>

\* A handler that goes on to the gate whatever the classifier says.
Classify_AlwaysGate ==
    /\ pc = "classify"
    /\ eligible' = should_create_paste(message.text)
    /\ trace' = Append(trace, Event("classify", "", eligible', <<>>))
    /\ pc' = "gate"
    /\ UNCHANGED <<MIN_MESSAGE_LENGTH, now, user_rate_limit, message,
                   detected_lang, lang_id, data, paste_url, granted, last_call>>

\* if should_create_paste(text):
Classify ==
    /\ pc = "classify"
    /\ eligible' = should_create_paste(message.text)
    /\ trace' = Append(trace, Event("classify", "", eligible', <<>>))
    /\ pc' = IF eligible' THEN "gate" ELSE "done"
    /\ UNCHANGED <<MIN_MESSAGE_LENGTH, now, user_rate_limit, message,
                   detected_lang, lang_id, data, paste_url, granted, last_call>>

\* if not check_rate_limit(user_id): return
Gate ==
    /\ pc = "gate"
    /\ LET r == check_rate_limit(message.user_id, now, user_rate_limit)
       IN  /\ user_rate_limit' = r.limits
           /\ trace' = Append(trace, Event("gate", "", r.allowed, <<>>))
           /\ pc' = IF r.allowed THEN "detect" ELSE "done"
           /\ granted' = IF r.allowed
                         THEN [granted EXCEPT ![message.user_id] = <<now>>]
                         ELSE granted
           /\ last_call' = {[user |-> message.user_id, at |-> now,
                             since |-> granted[message.user_id],
                             had_entry |-> message.user_id \in DOMAIN user_rate_limit,
                             allowed |-> r.allowed]}
    /\ UNCHANGED <<MIN_MESSAGE_LENGTH, now, message, eligible, detected_lang,
                   lang_id, data, paste_url>>

\* detected_lang = detect_language_from_content(text); create_paste builds
\* its payload and branches on language_alias
Detect ==
    /\ pc = "detect"
    /\ detected_lang' = detect_language_from_content(message.text)
    /\ data' = Payload(message.text)
    /\ pc' = IF detected_lang' # None THEN "lookup" ELSE "fallback"
    /\ UNCHANGED <<MIN_MESSAGE_LENGTH, now, user_rate_limit, message, eligible,
                   lang_id, paste_url, trace, granted, last_call>>

\* lang_id = get_language_id_by_alias(language_alias); if lang_id: ...
LookupAlias ==
    /\ pc = "lookup"
    /\ \E response \in Responses :
         /\ lang_id' = get_language_id_by_alias(detected_lang, response)
         /\ trace' = Append(trace, Event("GET", "lookup", response.ok,
                                         response.languages))
    /\ data' = IF Truthy(lang_id') THEN WithLanguage(data, lang_id'[1]) ELSE data
    /\ pc' = IF Truthy(lang_id') THEN "post" ELSE "fallback"
    /\ UNCHANGED <<MIN_MESSAGE_LENGTH, now, user_rate_limit, message, eligible,
                   detected_lang, paste_url, granted, last_call>>

\* A fallback that fetches the catalog and forgets to use it.
FallbackLanguage_Unused ==
    /\ pc = "fallback"
    /\ \E response \in Responses :
         trace' = Append(trace, Event("GET", "fallback", response.ok,
                                      response.languages))
    /\ pc' = "post"
    /\ UNCHANGED <<MIN_MESSAGE_LENGTH, now, user_rate_limit, message, eligible,
                   detected_lang, lang_id, data, paste_url, granted, last_call>>

\* Both fallback branches of create_paste: the first listed language, when
\* the alias did not resolve and when there is no alias at all.
FallbackLanguage ==
    /\ pc = "fallback"
    /\ \E response \in Responses :
         /\ trace' = Append(trace, Event("GET", "fallback", response.ok,
                                         response.languages))
         /\ data' = IF response.ok /\ response.languages # <<>>
                    THEN WithLanguage(data, response.languages[1].id)
                    ELSE data
    /\ pc' = "post"
    /\ UNCHANGED <<MIN_MESSAGE_LENGTH, now, user_rate_limit, message, eligible,
                   detected_lang, lang_id, paste_url, granted, last_call>>

\* A store call that is tried a second time when it fails.
PostPaste_Retry ==
    /\ pc = "post"
    /\ \E outcome \in PostOutcomes :
         /\ trace' = Append(trace, Event("POST", "", outcome.ok, outcome.body))
         /\ paste_url' = outcome.body
         /\ pc' = IF outcome.body # <<>> THEN "delete"
                  ELSE IF Count("POST") = 0 THEN "post"
                  ELSE "report_failure"
    /\ UNCHANGED <<MIN_MESSAGE_LENGTH, now, user_rate_limit, message, eligible,
                   detected_lang, lang_id, data, granted, last_call>>

\* A store call that gives the actor's slot back when it fails.
PostPaste_Rollback ==
    /\ pc = "post"
    /\ \E outcome \in PostOutcomes :
         /\ trace' = Append(trace, Event("POST", "", outcome.ok, outcome.body))
         /\ paste_url' = outcome.body
         /\ pc' = IF outcome.body # <<>> THEN "delete" ELSE "report_failure"
         /\ user_rate_limit' =
              IF outcome.body # <<>> THEN user_rate_limit
              ELSE [u \in DOMAIN user_rate_limit \ {message.user_id}
                       |-> user_rate_limit[u]]
    /\ UNCHANGED <<MIN_MESSAGE_LENGTH, now, message, eligible,
                   detected_lang, lang_id, data, granted, last_call>>

\* A handler that deletes the original whatever the store call returned.
PostPaste_DeleteAnyway ==
    /\ pc = "post"
    /\ \E outcome \in PostOutcomes :
         /\ trace' = Append(trace, Event("POST", "", outcome.ok, outcome.body))
         /\ paste_url' = outcome.body
    /\ pc' = "delete"
    /\ UNCHANGED <<MIN_MESSAGE_LENGTH, now, user_rate_limit, message, eligible,
                   detected_lang, lang_id, data, granted, last_call>>

\* response = requests.post(...); the URL if the body carries an id, None
\* on an exception or a body without one
PostPaste ==
    /\ pc = "post"
    /\ \E outcome \in PostOutcomes :
         /\ trace' = Append(trace, Event("POST", "", outcome.ok, outcome.body))
         /\ paste_url' = outcome.body
         /\ pc' = IF outcome.body # <<>> THEN "delete" ELSE "report_failure"
    /\ UNCHANGED <<MIN_MESSAGE_LENGTH, now, user_rate_limit, message, eligible,
                   detected_lang, lang_id, data, granted, last_call>>

\* A delete whose failure is not caught where it happens.
DeleteOriginal_Abort ==
    /\ pc = "delete"
    /\ \E ok \in BOOLEAN :
         /\ trace' = Append(trace, Event("delete", "", ok, <<>>))
         /\ pc' = IF ok THEN "notify" ELSE "report_error"
    /\ UNCHANGED <<MIN_MESSAGE_LENGTH, now, user_rate_limit, message, eligible,
                   detected_lang, lang_id, data, paste_url, granted, last_call>>

\* try: await update.message.delete() except Exception: log
DeleteOriginal ==
    /\ pc = "delete"
    /\ \E ok \in BOOLEAN :
         trace' = Append(trace, Event("delete", "", ok, <<>>))
    /\ pc' = "notify"
    /\ UNCHANGED <<MIN_MESSAGE_LENGTH, now, user_rate_limit, message, eligible,
                   detected_lang, lang_id, data, paste_url, granted, last_call>>

\* await context.bot.send_message(... paste_url ...)
SendLink ==
    /\ pc = "notify"
    /\ \E ok \in BOOLEAN :
         /\ trace' = Append(trace, Event("send", "link", ok, paste_url))
         /\ pc' = IF ok THEN "done" ELSE "report_error"
    /\ UNCHANGED <<MIN_MESSAGE_LENGTH, now, user_rate_limit, message, eligible,
                   detected_lang, lang_id, data, paste_url, granted, last_call>>

\* else: await context.bot.send_message("couldn't create a paste")
ReportFailure ==
    /\ pc = "report_failure"
    /\ \E ok \in BOOLEAN :
         /\ trace' = Append(trace, Event("send", "store_failed", ok, <<>>))
         /\ pc' = IF ok THEN "done" ELSE "report_error"
    /\ UNCHANGED <<MIN_MESSAGE_LENGTH, now, user_rate_limit, message, eligible,
                   detected_lang, lang_id, data, paste_url, granted, last_call>>

\* except Exception: try: await context.bot.send_message("an error
\* occurred") except Exception: log
ReportError ==
    /\ pc = "report_error"
    /\ \E ok \in BOOLEAN :
         trace' = Append(trace, Event("send", "error", ok, <<>>))
    /\ pc' = "done"
    /\ UNCHANGED <<MIN_MESSAGE_LENGTH, now, user_rate_limit, message, eligible,
                   detected_lang, lang_id, data, paste_url, granted, last_call>>

Next ==
    \/ Tick
    \/ \E update \in Updates : Receive(update)
    \/ Classify
    \/ Gate
    \/ Detect
    \/ LookupAlias
    \/ FallbackLanguage
    \/ PostPaste
    \/ DeleteOriginal
    \/ SendLink
    \/ ReportFailure
    \/ ReportError

Spec == Init /\ [][Next]_vars

---------------------------------------------------------------------------
(* The classifier and the detector on their own, over every text of the    *)
(* vocabulary and every configured minimum length.                         *)

InitPure ==
    /\ MIN_MESSAGE_LENGTH \in MinLengths
    /\ \E text \in Texts :
         message = [text |-> text, is_bot |-> FALSE, chat_type |-> "group",
                    user_id |-> 1]
    /\ now = 0
    /\ user_rate_limit = NoEntries
    /\ pc = "pure"
    /\ eligible = FALSE
    /\ detected_lang = None
    /\ lang_id = <<>>
    /\ data = <<>>
    /\ paste_url = <<>>
    /\ trace = <<>>
    /\ granted = [u \in Users |-> <<>>]
    /\ last_call = {}

CallShouldCreatePaste ==
    /\ pc = "pure"
    /\ eligible' = should_create_paste(message.text)
    /\ pc' = "classified"
    /\ UNCHANGED <<MIN_MESSAGE_LENGTH, now, user_rate_limit, message,
                   detected_lang, lang_id, data, paste_url, trace, granted,
                   last_call>>

CallDetectLanguage ==
    /\ pc = "classified"
    /\ detected_lang' = detect_language_from_content(message.text)
    /\ pc' = "detected"
    /\ UNCHANGED <<MIN_MESSAGE_LENGTH, now, user_rate_limit, message, eligible,
                   lang_id, data, paste_url, trace, granted, last_call>>

NextPure == CallShouldCreatePaste \/ CallDetectLanguage

SpecPure == InitPure /\ [][NextPure]_vars

---------------------------------------------------------------------------
(* Properties *)

Indices(op) == {i \in 1..Len(trace) : trace[i].op = op}

Classified == pc \in {"classified", "detected"}

\* create_paste has finished building its payload
PayloadBuilt == pc = "post" \/ Count("POST") > 0

\* the run in flight has passed the gate
GatePassed == \E i \in Indices("gate") : trace[i].ok

\* C1: as claimed, a gate call made by an actor within RATE_LIMIT_WINDOW of
\* the actor's last allowed call is denied, and the actor's recorded
\* timestamp stays the time of that allowed call.
C1_DeniedWithinWindow ==
    \A c \in last_call :
        (c.since # <<>> /\ c.at - c.since[1] <= RATE_LIMIT_WINDOW)
            => /\ ~c.allowed
               /\ c.user \in DOMAIN user_rate_limit
               /\ user_rate_limit[c.user] = c.since[1]

\* C2: a gate call by an actor that has no entry, was never allowed before,
\* or was last allowed more than RATE_LIMIT_WINDOW ago returns True and
\* records the current time for the actor.
C2_Readmitted ==
    \A c \in last_call :
        (c.since = <<>> \/ ~c.had_entry \/ c.at - c.since[1] > RATE_LIMIT_WINDOW)
            => /\ c.allowed
               /\ c.user \in DOMAIN user_rate_limit
               /\ user_rate_limit[c.user] = c.at

\* C2 witness: an actor allowed before is allowed again once the window has
\* elapsed.
C2_Witness ==
    \E c \in last_call :
        /\ c.since # <<>>
        /\ c.at - c.since[1] > RATE_LIMIT_WINDOW
        /\ c.allowed
        /\ user_rate_limit[c.user] = c.at

\* C3, as claimed: the gate is consulted before the classifier runs,
\* whatever the content.
C3_GateBeforeClassifier ==
    \A i \in Indices("classify") : \E j \in Indices("gate") : j < i

\* C3, amended: the classifier runs first, and the gate is consulted only
\* after the classifier has found the content eligible; an ineligible
\* message never reaches the gate.
C3_ClassifierBeforeGate ==
    /\ \A j \in Indices("gate") :
           \E i \in Indices("classify") : i < j /\ trace[i].ok
    /\ \A i \in Indices("classify") : ~trace[i].ok => Indices("gate") = {}

\* C3 witness: a run in which the classifier ran and then the gate.
C3_Witness ==
    \E i \in Indices("classify") : \E j \in Indices("gate") : i < j

\* C4, as claimed: each external call is issued at most once per run.
C4_EachCallOnce ==
    /\ Count("GET") <= 1
    /\ Count("POST") <= 1
    /\ Count("delete") <= 1
    /\ Count("send") <= 1

\* C4, amended: the POST and the delete are issued at most once; the catalog
\* fetch at most twice, the second only as the first-language fallback after
\* the alias lookup gave no usable id; the send at most twice, the second
\* only as the error report after the first send raised.
C4_CallCounts ==
    /\ Count("POST") <= 1
    /\ Count("delete") <= 1
    /\ Count("GET") <= 2
    /\ Count("send") <= 2
    /\ \A i, j \in Indices("GET") :
           i < j => /\ trace[i].arg = "lookup"
                    /\ trace[j].arg = "fallback"
                    /\ ~Truthy(lang_id)
    /\ \A i, j \in Indices("send") :
           i < j => /\ ~trace[i].ok
                    /\ trace[i].arg # "error"
                    /\ trace[j].arg = "error"

\* C4 witness: a finished run with two catalog fetches, one POST and two
\* sends.
C4_Witness ==
    /\ pc = "done"
    /\ Count("GET") = 2
    /\ Count("POST") = 1
    /\ Count("send") = 2

\* C5: a text shorter than MIN_MESSAGE_LENGTH is never eligible.
C5_LengthGate ==
    (Classified /\ TextLen(message.text) < MIN_MESSAGE_LENGTH) => ~eligible

\* C5 witness: a text under the minimum that is code-like and has a detected
\* language was classified.
C5_Witness ==
    /\ Classified
    /\ TextLen(message.text) < MIN_MESSAGE_LENGTH
    /\ LooksLikeCode(message.text)
    /\ detect_language_from_content(message.text) # None
    /\ ~eligible

\* C6, as claimed: a text longer than 1000 is eligible for every minimum
\* length.
C6_LongAlwaysEligible ==
    (Classified /\ TextLen(message.text) > LongMessageLength) => eligible

\* C6, amended: a text longer than 1000 that is not shorter than
\* MIN_MESSAGE_LENGTH is eligible, code-like or not.
C6_LongOverride ==
    (/\ Classified
     /\ TextLen(message.text) > LongMessageLength
     /\ TextLen(message.text) >= MIN_MESSAGE_LENGTH) => eligible

\* C6 witness: a long text that is neither code-like nor of a detected
\* language was found eligible.
C6_Witness ==
    /\ Classified
    /\ TextLen(message.text) > LongMessageLength
    /\ ~LooksLikeCode(message.text)
    /\ detect_language_from_content(message.text) = None
    /\ eligible

\* C7, as claimed: the payload carries a language field only when detection
\* returned a tag.
C7_LanguageOnlyWhenDetected ==
    "language" \in DOMAIN data => detected_lang # None

\* C7, amended: the payload carries the alias's id when the lookup resolves;
\* otherwise, also when detection returned nothing, it carries the first
\* language of the fallback fetch whenever that fetch succeeds with a
\* non-empty list; it carries no language field only when the fallback fetch
\* fails or lists nothing.
C7_LanguageField ==
    PayloadBuilt =>
        /\ Indices("GET") # {}
        /\ LET last == trace[CHOOSE i \in Indices("GET") :
                                \A j \in Indices("GET") : j <= i]
           IN  /\ last.arg = "lookup"
                    => /\ Truthy(lang_id)
                       /\ "language" \in DOMAIN data
                       /\ data.language = lang_id[1]
               /\ (last.arg = "fallback" /\ last.ok /\ last.body # <<>>)
                    => /\ "language" \in DOMAIN data
                       /\ data.language = last.body[1].id
               /\ "language" \notin DOMAIN data
                    => /\ last.arg = "fallback"
                       /\ ~last.ok \/ last.body = <<>>

\* C7 witness: detection returned nothing and the payload carries a
\* language.
C7_Witness ==
    /\ PayloadBuilt
    /\ detected_lang = None
    /\ "language" \in DOMAIN data

\* C8: when the delete of the original message fails, the next thing the
\* handler does is send the link, carrying the URL of the paste; the
\* failure takes the handler neither to its error path nor out of it.
C8_DeleteFailureStillNotifies ==
    \A i \in Indices("delete") :
        ~trace[i].ok =>
            \/ i = Len(trace) /\ pc = "notify" /\ paste_url # <<>>
            \/ /\ i < Len(trace)
               /\ trace[i + 1].op = "send"
               /\ trace[i + 1].arg = "link"
               /\ trace[i + 1].body = paste_url
               /\ paste_url # <<>>

\* C8 witness: the delete failed and the link was sent.
C8_Witness ==
    \E i \in Indices("delete") :
        /\ ~trace[i].ok
        /\ i < Len(trace)
        /\ trace[i + 1].op = "send"
        /\ trace[i + 1].arg = "link"
        /\ trace[i + 1].ok

\* C9: from the gate's True to the end of the run, whatever fails, the
\* actor's entry is the timestamp the gate recorded.
C9_SlotHeld ==
    GatePassed =>
        /\ message.user_id \in DOMAIN user_rate_limit
        /\ \A c \in last_call :
               /\ c.user = message.user_id
               /\ c.allowed
               /\ user_rate_limit[message.user_id] = c.at

\* C9 witness: a run that passed the gate ended with the store call failed
\* and both sends failed, the entry still in place.
C9_Witness ==
    /\ pc = "done"
    /\ GatePassed
    /\ paste_url = <<>>
    /\ \E i \in Indices("POST") : ~trace[i].ok
    /\ \A i \in Indices("send") : ~trace[i].ok
    /\ Count("send") = 2
    /\ message.user_id \in DOMAIN user_rate_limit

\* C10: for a text whose first line starts with '#!', the detector returns
\* python if the line contains 'python', otherwise bash if it contains
\* 'bash' or 'sh', otherwise javascript if it contains 'node', whatever the
\* scores of the text.
C10_ShebangPrecedence ==
    (pc = "detected" /\ StartsWithShebang(message.text[1])) =>
        LET first == message.text[1]
        IN  /\ ContainsPython(first) => detected_lang = "python"
            /\ (~ContainsPython(first)
                  /\ (ContainsBash(first) \/ ContainsSh(first)))
                 => detected_lang = "bash"
            /\ (~ContainsPython(first) /\ ~ContainsBash(first)
                  /\ ~ContainsSh(first) /\ ContainsNode(first))
                 => detected_lang = "javascript"

\* C10 witness: a python shebang over a body whose highest score is another
\* language's.
C10_Witness ==
    /\ pc = "detected"
    /\ StartsWithShebang(message.text[1])
    /\ ContainsPython(message.text[1])
    /\ MaxScore(message.text) \notin {None, "python"}
    /\ detected_lang = "python"

\* the run in flight returned before the store call, or the store call gave
\* no URL: no text, a bot, a private chat, ineligible content, a denied gate,
\* a failed POST or a body without an id
NothingStored ==
    \/ message.text = <<>>
    \/ message.is_bot
    \/ message.chat_type = "private"
    \/ \E i \in Indices("classify") : ~trace[i].ok
    \/ \E i \in Indices("gate") : ~trace[i].ok
    \/ \E i \in Indices("POST") : ~trace[i].ok \/ trace[i].body = <<>>

\* C11: the delete of the original message is issued only after the store
\* call has returned a paste id, which is the URL the handler holds; a run
\* that ends without a stored paste has issued no delete.
C11_DeleteOnlyAfterStore ==
    /\ \A i \in Indices("delete") :
           /\ paste_url # <<>>
           /\ \E j \in Indices("POST") :
                  j < i /\ trace[j].ok /\ trace[j].body = paste_url
    /\ NothingStored => Count("delete") = 0
    /\ (pc = "done" /\ paste_url = <<>>) => Count("delete") = 0

\* C11 witness: the store call returned an id and the delete followed it.
C11_Witness ==
    \E i \in Indices("delete") :
        \E j \in Indices("POST") : j < i /\ trace[j].body # <<>>

\* C11 witness of the other case: a run ended with the store call failed
\* and the original message not deleted.
C11_WitnessKept ==
    /\ pc = "done"
    /\ \E i \in Indices("POST") : ~trace[i].ok
    /\ Count("delete") = 0

===========================================================================
